---- MODULE Spec2Model ----
(***************************************************************************)
(* A model of the fusion generator:                                        *)
(*   - the classpath Resolver (fusion-generator-jvm/src/resolver.rs),      *)
(*     stepped through its two lazy iterator pipelines;                    *)
(*   - the TypeScript code generator (fusion-generator-core/src/ts.rs and  *)
(*     src/ast), a pure function from AST nodes to strings.                *)
(* Strings are TLA+ strings; concatenation is \o, as concat_string! and    *)
(* format! are in the source.                                              *)
(***************************************************************************)
EXTENDS Integers, Sequences, FiniteSets, TLC

VARIABLES
  paths,     \* Resolver.paths: the ordered list of classpath roots
  fs,        \* the file system the roots name, fixed during a call
  name,      \* the argument of resolve, as passed by the caller
  dep,       \* the local `dep` of resolve: name plus ".class"
  pc,        \* position inside resolve
  ei,        \* directory pipeline: index of the next walk entry
  ai,        \* archive pipeline: index of the next archive root
  dirRes,    \* value of the directory pipeline's .next()
  archRes,   \* value of the archive pipeline's .next()
  opened,    \* the archive roots File::open was called on
  result,    \* the value resolve returns
  node,      \* code generator: the AST node handed to codegen
  opts,      \* code generator: the CodegenOpts handed to codegen
  out        \* code generator: the rendered string

vars == <<paths, fs, name, dep, pc, ei, ai, dirRes, archRes, opened,
          result, node, opts, out>>

resolverVars == <<paths, fs, name, dep, pc, ei, ai, dirRes, archRes,
                  opened, result>>

codegenVars == <<node, opts, out>>

(***************************************************************************)
(* Bounds                                                                  *)
(***************************************************************************)
\* the longest root list
MaxRoots == 3
\* the most entries below one directory root
MaxWalk == 1
\* the most type references in one type rendered alone, itself and its
\* generic arguments at every depth counted
MaxTypeSize == 4
\* the longest list of fields, parameters, methods, variants or imports
MaxList == 3

(***************************************************************************)
(* String helpers (str::ends_with, str::contains)                          *)
(***************************************************************************)
\* the least element of a set of integers
Least(S) == CHOOSE i \in S : \A j \in S : i <= j

EndsWith(s, t) ==
  /\ Len(s) >= Len(t)
  /\ SubSeq(s, Len(s) - Len(t) + 1, Len(s)) = t

Contains(s, t) ==
  \E i \in 0..(Len(s) - Len(t)) : SubSeq(s, i + 1, i + Len(t)) = t

(***************************************************************************)
(* Option and Result values                                                *)
(***************************************************************************)
None == [some |-> FALSE, ok |-> FALSE, class |-> "", err |-> "", payload |-> ""]

Ok(c) == [some |-> TRUE, ok |-> TRUE, class |-> c, err |-> "", payload |-> ""]

Err(kind, what) ==
  [some |-> TRUE, ok |-> FALSE, class |-> "", err |-> kind, payload |-> what]

\* the variants of ResolutionError
ErrorKinds == {"JarNotFound", "DependencyNotResolved", "IO", "Zip", "Coffer"}

(***************************************************************************)
(* The file system                                                         *)
(***************************************************************************)
\* the class name that the trees and archives below hold
ClassRel == "com/example/Foo"

\* the names a caller asks for: slash- and dot-qualified
Names == {"com/example/Foo", "com.example.Foo"}

\* what a file holds: a class, bytes that do not parse, or it cannot be opened
FileStates == {"class", "corrupt", "unopenable"}

\* the entries below a directory root
Children ==
  {[rel |-> "/" \o ClassRel \o ".class", state |-> s] : s \in FileStates}

ChildLists == UNION {[1..n -> Children] : n \in 0..MaxWalk}

DirNodes ==
  {[kind |-> "missing", children |-> <<>>, entries |-> {}]} \cup
  {[kind |-> "dir", children |-> c, entries |-> {}] : c \in ChildLists}

\* what an archive entry holds; "encrypted" makes by_name fail although the
\* entry is there
EntryStates == {"class", "corrupt", "encrypted"}

ArchiveEntries ==
  {{}} \cup {{[name |-> ClassRel \o ".class", state |-> s]} : s \in EntryStates}

JarNodes ==
  {[kind |-> "missing", children |-> <<>>, entries |-> {}],
   [kind |-> "notzip", children |-> <<>>, entries |-> {}]} \cup
  {[kind |-> "zip", children |-> <<>>, entries |-> e] : e \in ArchiveEntries}

\* the path of the i-th root: a directory, or an archive named *.jar
RootPath(i, jar) == "cp" \o ToString(i) \o (IF jar THEN ".jar" ELSE "")

(***************************************************************************)
(* Resolver::resolve, its helpers                                          *)
(***************************************************************************)
IsJarMutant(path) == EndsWith(path, ".zip")

\* resolver.rs:32 and :44, path.ends_with(".jar")
IsJar(path) == EndsWith(path, ".jar")

\* WalkDir::new(path).into_iter(): the root itself, then what is below it;
\* a root that is missing or unreadable yields one error
WalkDir(path) ==
  LET n == fs[path] IN
  IF n.kind = "missing"
  THEN <<[ok |-> FALSE, path |-> "", state |-> ""]>>
  ELSE <<[ok |-> TRUE, path |-> path, state |-> "directory"]>> \o
       [k \in 1..Len(n.children) |->
          [ok |-> TRUE, path |-> path \o n.children[k].rel,
           state |-> n.children[k].state]]

RECURSIVE Flatten(_)
\* Iterator::flat_map: the walks one after the other
Flatten(ss) == IF ss = <<>> THEN <<>> ELSE Head(ss) \o Flatten(Tail(ss))

\* resolver.rs:30-33, the entries the directory pipeline pulls, in order:
\* the walks of the roots not named *.jar, in list order
DirWalk ==
  LET NotJar(p) == ~IsJar(p)
      roots == SelectSeq(paths, NotJar)
  IN Flatten([k \in 1..Len(roots) |-> WalkDir(roots[k])])

\* resolver.rs:42-44, the roots the archive pipeline pulls, in order
JarRoots == SelectSeq(paths, IsJar)

MatchesMutant(path, d) == TRUE

\* resolver.rs:36, path.contains(&dep)
Matches(path, d) == Contains(path, d)

\* resolver.rs:37-38, File::open then Class::read_from
OpenAndParse(entry) ==
  CASE entry.state = "class" -> Ok(entry.path)
    [] entry.state = "corrupt" -> Err("Coffer", entry.path)
    [] OTHER -> Err("IO", entry.path)

\* resolver.rs:45-47, File::open, BufReader::new, ZipArchive::new
OpenArchive(path) ==
  CASE fs[path].kind = "missing" -> Err("IO", path)
    [] fs[path].kind = "notzip" -> Err("Zip", path)
    [] OTHER -> Ok(path)

\* resolver.rs:49, archive.by_name(&dep).ok(): the entry of that very name,
\* None when there is none or the lookup fails
ByName(path, d) ==
  LET hit == {e \in fs[path].entries : e.name = d /\ e.state # "encrypted"} IN
  IF hit = {} THEN None ELSE Ok((CHOOSE e \in hit : TRUE).state)

\* resolver.rs:48-53, the closure over an opened archive
LookupClass(path, d) ==
  LET f == ByName(path, d) IN
  CASE ~f.some -> None
    [] f.class = "class" -> Ok(path \o "!" \o d)
    [] OTHER -> Err("Coffer", path \o "!" \o d)

CombineMutant(d, a, n, dp) ==
  IF a.some THEN a
  ELSE IF d.some THEN d ELSE Err("DependencyNotResolved", dp)

\* resolver.rs:40 and :57, dir.or(archive).ok_or(DependencyNotResolved(dep))?
\* where dep is the shadowed local, the name with ".class" appended
Combine(d, a, n, dp) ==
  IF d.some THEN d
  ELSE IF a.some THEN a ELSE Err("DependencyNotResolved", dp)

(***************************************************************************)
(* Resolver: the state machine                                             *)
(***************************************************************************)
InitCodegenIdle ==
  /\ node = [kind |-> "none"]
  /\ opts = [kind |-> "None", flag |-> FALSE, text |-> ""]
  /\ out = [done |-> FALSE, panic |-> FALSE, text |-> "", by |-> ""]

InitResolver ==
  /\ \E n \in 0..MaxRoots : \E jar \in [1..n -> BOOLEAN] :
       /\ paths = [i \in 1..n |-> RootPath(i, jar[i])]
       /\ fs \in {f \in [{RootPath(i, jar[i]) : i \in 1..n} ->
                          DirNodes \cup JarNodes] :
                    \A i \in 1..n :
                      f[RootPath(i, jar[i])] \in
                        (IF jar[i] THEN JarNodes ELSE DirNodes)}
  /\ name \in Names
  /\ dep = ""
  /\ pc = "idle"
  /\ ei = 1 /\ ai = 1
  /\ dirRes = None /\ archRes = None
  /\ opened = {}
  /\ result = None
  /\ InitCodegenIdle

\* resolver.rs:24-27
Resolve ==
  /\ pc = "idle"
  /\ dep' = name \o ".class"
  /\ pc' = "dir"
  /\ UNCHANGED <<paths, fs, name, ei, ai, dirRes, archRes, opened, result>>
  /\ UNCHANGED codegenVars

\* candidates that leave out the files that do not open or parse
CandidatesMutant(walk, d) ==
  {k \in 1..Len(walk) :
     walk[k].ok /\ Contains(walk[k].path, d) /\ walk[k].state = "class"}

\* resolver.rs:34-36, the entries of a walk that reach File::open: an entry
\* the walk fails on is dropped by filter_map(entry.ok()), one that does not
\* match by filter
Candidates(walk, d) ==
  {k \in 1..Len(walk) : walk[k].ok /\ Matches(walk[k].path, d)}

\* resolver.rs:29-39, the directory pipeline driven by its .next(): the walk
\* is pulled up to the first entry that matches, which is opened and parsed;
\* ei is the position the walk is left at
DirStep ==
  /\ pc = "dir"
  /\ LET walk == DirWalk
         found == Candidates(walk, dep)
         first == Least(found)
     IN IF found = {}
        THEN /\ dirRes' = None
             /\ ei' = Len(walk) + 1
        ELSE /\ dirRes' = OpenAndParse(walk[first])
             /\ ei' = first + 1
  /\ pc' = "archive"
  /\ UNCHANGED <<paths, fs, name, dep, ai, archRes, opened, result>>
  /\ UNCHANGED codegenVars

\* resolver.rs:41-55, one archive root pulled by the archive pipeline's
\* .next(); the pipeline is the argument of Option::or, so it runs whatever
\* dirRes is
ArchiveStep ==
  /\ pc = "archive"
  /\ IF ai > Len(JarRoots)
     THEN /\ archRes' = None
          /\ pc' = "return"
          /\ UNCHANGED <<ai, opened>>
     ELSE LET a == OpenArchive(JarRoots[ai])
              c == LookupClass(JarRoots[ai], dep) IN
          /\ opened' = opened \cup {JarRoots[ai]}
          /\ ai' = ai + 1
          /\ IF ~a.ok
             THEN /\ archRes' = a
                  /\ pc' = "return"
             ELSE IF c.some
             THEN /\ archRes' = c
                  /\ pc' = "return"
             ELSE UNCHANGED <<archRes, pc>>
  /\ UNCHANGED <<paths, fs, name, dep, ei, dirRes, result>>
  /\ UNCHANGED codegenVars

\* resolver.rs:40 and :57
Return ==
  /\ pc = "return"
  /\ result' = Combine(dirRes, archRes, name, dep)
  /\ pc' = "done"
  /\ UNCHANGED <<paths, fs, name, dep, ei, ai, dirRes, archRes, opened>>
  /\ UNCHANGED codegenVars

NextResolver == Resolve \/ DirStep \/ ArchiveStep \/ Return

ResolverSpec == InitResolver /\ [][NextResolver]_vars

(***************************************************************************)
(* Code generator: AST values                                              *)
(***************************************************************************)
\* Option<Rc<Vec<T>>>
NoList == [some |-> FALSE, list |-> <<>>]

SomeList(l) == [some |-> TRUE, list |-> l]

\* Option<T> of a single node
NoNode == [some |-> FALSE, val |-> [kind |-> "none"]]

SomeNode(n) == [some |-> TRUE, val |-> n]

\* the sequences over S of length at most n
SeqsUpTo(S, n) == UNION {[1..k -> S] : k \in 0..n}

\* Type::new
Type(nm, optional, inner) ==
  [kind |-> "Type", name |-> nm, optional |-> optional, inner |-> inner]

\* CodegenOpts
OptNone == [kind |-> "None", flag |-> FALSE, text |-> ""]

TypeWithoutOptional(b) == [kind |-> "TypeWithoutOptional", flag |-> b, text |-> ""]

ModuleHeader(h) == [kind |-> "ModuleHeader", flag |-> FALSE, text |-> h]

MethodEndpointName(e) == [kind |-> "MethodEndpointName", flag |-> FALSE, text |-> e]

(***************************************************************************)
(* Code generator: codegen of ts.rs, one operator per match arm            *)
(***************************************************************************)
RECURSIVE JoinMutant(_, _)
\* a join that takes the pieces last to first
JoinMutant(list, sep) ==
  IF list = <<>> THEN ""
  ELSE IF Len(list) = 1 THEN list[1]
  ELSE JoinMutant(Tail(list), sep) \o sep \o list[1]

RECURSIVE Join(_, _)
\* [String]::join
Join(list, sep) ==
  IF list = <<>> THEN ""
  ELSE IF Len(list) = 1 THEN list[1]
  ELSE list[1] \o sep \o Join(Tail(list), sep)

\* ts.rs:236, ASTKind::Ident
CodegenIdent(id) == id

\* ts.rs:237-243, ASTKind::Import
CodegenImport(n) ==
  "import type " \o CodegenIdent(n.symbol) \o " from \"" \o n.source \o "\";"

\* ts.rs:223-231
codegen_imports(imports) ==
  IF imports.some
  THEN SomeList(Join([k \in 1..Len(imports.list) |->
                        CodegenImport(imports.list[k])], "\n"))
  ELSE NoList

RECURSIVE CodegenTypeMutant(_, _)
CodegenTypeMutant(n, o) ==
  LET without_optional ==
        IF o.kind = "TypeWithoutOptional" THEN o.flag ELSE FALSE
      tail == IF ~without_optional /\ n.optional THEN " | undefined" ELSE ""
      inner ==
        IF n.inner.some
        THEN "<" \o Join([k \in 1..Len(n.inner.list) |->
                            CodegenTypeMutant(n.inner.list[k], o)], ", ")
                 \o ">"
        ELSE ""
  IN CodegenIdent(n.name) \o inner \o tail

RECURSIVE CodegenType(_, _)
\* ts.rs:244-273, ASTKind::Type
CodegenType(n, o) ==
  LET without_optional ==
        IF o.kind = "TypeWithoutOptional" THEN o.flag ELSE FALSE
      tail == IF ~without_optional /\ n.optional THEN " | undefined" ELSE ""
      inner ==
        IF n.inner.some
        THEN "<" \o Join([k \in 1..Len(n.inner.list) |->
                            CodegenType(n.inner.list[k], OptNone)], ", ")
                 \o ">"
        ELSE ""
  IN CodegenIdent(n.name) \o inner \o tail

CodegenFieldMutant(n, o) ==
  "  " \o CodegenIdent(n.name) \o (IF n.type.optional THEN "?" ELSE "")
       \o ": " \o CodegenType(n.type, OptNone) \o ";"

\* ts.rs:274-283, ASTKind::Field
CodegenField(n, o) ==
  "  " \o CodegenIdent(n.name) \o (IF n.type.optional THEN "?" ELSE "")
       \o ": " \o CodegenType(n.type, TypeWithoutOptional(TRUE)) \o ";"

\* ts.rs:284-295, ASTKind::Struct
CodegenStruct(n, o) ==
  "export default interface " \o CodegenIdent(n.name) \o " {\n"
    \o (IF n.fields.some
        THEN Join([k \in 1..Len(n.fields.list) |->
                     CodegenField(n.fields.list[k], OptNone)], "\n")
        ELSE "")
    \o "\n}"

\* ts.rs:297-305, :367-375, :443-451, the header of a module
CodegenHeader(o) == IF o.kind = "ModuleHeader" THEN o.text \o "\n" ELSE ""

\* ts.rs:307-312 and :377-382, the import block of a module
CodegenImportBlock(imports) ==
  IF codegen_imports(imports).some
  THEN codegen_imports(imports).list \o "\n\n"
  ELSE ""

\* ts.rs:296-321, ASTKind::StructModule
CodegenStructModule(n, o) ==
  CodegenHeader(o) \o CodegenImportBlock(n.imports)
    \o (IF n.content.some THEN CodegenStruct(n.content.val, OptNone) ELSE "")

\* ts.rs:322-328, ASTKind::Parameter
CodegenParameter(n, o) ==
  CodegenIdent(n.name) \o ": " \o CodegenType(n.type, OptNone)

\* ts.rs:330-333, the Method arm panics without an endpoint name
MethodPanics(o) == o.kind # "MethodEndpointName"

\* ts.rs:329-365, ASTKind::Method, given an endpoint name
CodegenMethod(n, o) ==
  LET nm == CodegenIdent(n.name)
      parameters ==
        IF n.parameters.some
        THEN Join([k \in 1..Len(n.parameters.list) |->
                     CodegenParameter(n.parameters.list[k], OptNone)], ", ")
        ELSE ""
      parameter_names ==
        IF n.parameters.some
        THEN ", {" \o Join([k \in 1..Len(n.parameters.list) |->
                              CodegenIdent(n.parameters.list[k].name)], ", ")
                   \o "}"
        ELSE ""
  IN "function _" \o nm \o "(" \o parameters \o "): Promise<"
       \o CodegenType(n.return_type, OptNone) \o "> {\n  client.call(\""
       \o CodegenIdent(o.text) \o "\", \"" \o nm \o "\"" \o parameter_names
       \o ");\n}"

\* ts.rs:366-418, ASTKind::EndpointModule
CodegenEndpointModule(n, o) ==
  LET items ==
        IF n.content.some
        THEN Join([k \in 1..Len(n.content.list) |->
                     CodegenMethod(n.content.list[k],
                                   MethodEndpointName(n.name))], "\n\n")
               \o "\n\n"
        ELSE ""
      exports ==
        IF n.content.some
        THEN "export {\n"
               \o Join([k \in 1..Len(n.content.list) |->
                          "  _" \o CodegenIdent(n.content.list[k].name)
                            \o " as " \o CodegenIdent(n.content.list[k].name)
                            \o ","], "\n")
               \o "\n};"
        ELSE ""
  IN CodegenHeader(o) \o CodegenImportBlock(n.imports) \o items \o exports

\* an endpoint module that hands its own option down to its methods
EndpointModulePanicsMutant(n, o) ==
  /\ n.content.some
  /\ \E k \in 1..Len(n.content.list) : MethodPanics(o)

\* ts.rs:384-392, the option each method of an endpoint module is rendered
\* with is MethodEndpointName(&node.name), whatever the module's own option
EndpointModulePanics(n, o) ==
  /\ n.content.some
  /\ \E k \in 1..Len(n.content.list) :
       MethodPanics(MethodEndpointName(n.name))

\* ts.rs:419-422, ASTKind::EnumVariant
CodegenEnumVariant(n, o) ==
  CodegenIdent(n.name) \o " = '" \o CodegenIdent(n.name) \o "'"

\* ts.rs:423-441, ASTKind::Enum
CodegenEnum(n, o) ==
  "export default enum " \o CodegenIdent(n.name) \o " {\n"
    \o (IF n.variants.some
        THEN Join([k \in 1..Len(n.variants.list) |->
                     "  " \o CodegenEnumVariant(n.variants.list[k], OptNone)
                       \o ","], "\n")
        ELSE "")
    \o "\n}"

CodegenEnumModuleMutant(n, o) ==
  CodegenHeader(o)
    \o (IF n.content.some THEN CodegenEnum(n.content.val, OptNone) ELSE "")

\* ts.rs:442-461, ASTKind::EnumModule
CodegenEnumModule(n, o) ==
  CodegenHeader(o) \o "\n"
    \o (IF n.content.some THEN CodegenEnum(n.content.val, OptNone) ELSE "")

(***************************************************************************)
(* Code generator: as_ts of src/ast, for types, fields and declarations    *)
(***************************************************************************)
RECURSIVE TypeAsTs(_)
\* ast/common.rs:80-91 and :96-101, Type::inner_as_ts and Type::as_ts
TypeAsTs(n) ==
  CodegenIdent(n.name)
    \o (IF n.inner.some
        THEN "<" \o Join([k \in 1..Len(n.inner.list) |->
                            TypeAsTs(n.inner.list[k])], ", ") \o ">"
        ELSE "")
    \o (IF n.optional THEN " | undefined" ELSE "")

\* ast/common.rs:107-111, NonOptionalType::as_ts
NonOptionalTypeAsTs(n) ==
  CodegenIdent(n.name)
    \o (IF n.inner.some
        THEN "<" \o Join([k \in 1..Len(n.inner.list) |->
                            TypeAsTs(n.inner.list[k])], ", ") \o ">"
        ELSE "")

\* ast/declaration.rs:22-33, Field::as_ts
FieldAsTs(n) ==
  "  " \o CodegenIdent(n.name) \o (IF n.type.optional THEN "?" ELSE "")
       \o ": " \o NonOptionalTypeAsTs(n.type) \o ";"

\* declaration.rs:52-65, Declaration::as_ts
DeclarationAsTs(n) ==
  "export default interface " \o CodegenIdent(n.name) \o " {\n"
    \o (IF n.fields.some
        THEN Join([k \in 1..Len(n.fields.list) |-> FieldAsTs(n.fields.list[k])],
                  "\n")
        ELSE "")
    \o "\n}"

(***************************************************************************)
(* Code generator: the nodes and options rendered                          *)
(***************************************************************************)
LeafTypes == {Type("number", b, NoList) : b \in BOOLEAN}

RECURSIVE TypesOfSize(_), ArgsOfSize(_)
\* the types made of exactly n type references
TypesOfSize(n) ==
  IF n = 1
  THEN LeafTypes \cup
       {Type("Array", b, l) : b \in BOOLEAN, l \in {NoList, SomeList(<<>>)}}
  ELSE {Type("Array", b, SomeList(a)) :
          b \in BOOLEAN, a \in ArgsOfSize(n - 1)}

\* the generic-argument lists made of exactly m type references
ArgsOfSize(m) ==
  IF m = 0 THEN {<<>>}
  ELSE UNION {{<<t>> \o r : t \in TypesOfSize(k), r \in ArgsOfSize(m - k)} :
                k \in 1..m}

TypeNodes == UNION {TypesOfSize(n) : n \in 1..MaxTypeSize}

\* the types of the tests of ts.rs and ast
SampleTypes ==
  {Type("string", FALSE, NoList),
   Type("number", TRUE, NoList),
   Type("boolean", FALSE, SomeList(<<>>)),
   Type("Array", TRUE, SomeList(<<Type("number", TRUE, NoList)>>)),
   Type("Array", FALSE,
        SomeList(<<Type("HealthGridItem", FALSE, NoList)>>))}

Field(nm, t) == [kind |-> "Field", name |-> nm, type |-> t]

FieldNodes ==
  {Field(nm, t) : nm \in {"data", "name"}, t \in TypeNodes \cup SampleTypes}

\* the fields of the Struct nodes
SampleFields ==
  {Field("data", Type("Array", TRUE,
                      SomeList(<<Type("number", TRUE, NoList)>>))),
   Field("name", Type("string", FALSE, NoList)),
   Field("size", Type("number", TRUE, NoList))}

Lists(S) == {NoList} \cup {SomeList(l) : l \in SeqsUpTo(S, MaxList)}

StructNodes ==
  {[kind |-> "Struct", name |-> "ChartSeries", fields |-> f] :
     f \in Lists(SampleFields)}

SampleImports ==
  {[kind |-> "Import", symbol |-> "ChartsSeries",
    source |-> "./dashboard/ChartSeries"],
   [kind |-> "Import", symbol |-> "HealthGridItem",
    source |-> "./dashboard/HealthGridItem"]}

SampleStructs ==
  {n \in StructNodes : n.fields.some => Len(n.fields.list) = 2}

StructModuleNodes ==
  {[kind |-> "StructModule", name |-> "ChartSeries", imports |-> i,
    content |-> c] :
     i \in Lists(SampleImports),
     c \in {NoNode} \cup {SomeNode(n) : n \in SampleStructs}}

Parameter(nm, t) == [kind |-> "Parameter", name |-> nm, type |-> t]

ParameterNodes ==
  {Parameter(nm, t) : nm \in {"id", "optional"}, t \in SampleTypes}

SampleParameters ==
  {Parameter("id", Type("number", TRUE, NoList)),
   Parameter("optional", Type("boolean", FALSE, NoList)),
   Parameter("items", Type("Array", TRUE,
                           SomeList(<<Type("number", TRUE, NoList)>>)))}

Method(nm, p, r) ==
  [kind |-> "Method", name |-> nm, parameters |-> p, return_type |-> r]

MethodNodes ==
  {Method(nm, p, r) :
     nm \in {"healthGridItems", "monthlyVisitorSeries"},
     p \in Lists(SampleParameters),
     r \in {Type("Array", FALSE,
                 SomeList(<<Type("HealthGridItem", FALSE, NoList)>>)),
            Type("Array", TRUE,
                 SomeList(<<Type("ChartsSeries", TRUE, NoList)>>))}}

\* the methods of the EndpointModule nodes
SampleMethods ==
  {Method("healthGridItems", NoList,
          Type("Array", FALSE,
               SomeList(<<Type("HealthGridItem", FALSE, NoList)>>))),
   Method("monthlyVisitorSeries",
          SomeList(<<Parameter("id", Type("number", TRUE, NoList)),
                     Parameter("optional", Type("boolean", FALSE, NoList))>>),
          Type("Array", TRUE,
               SomeList(<<Type("ChartsSeries", TRUE, NoList)>>))),
   Method("ping", SomeList(<<>>), Type("string", TRUE, NoList))}

EndpointModuleNodes ==
  {[kind |-> "EndpointModule", name |-> "DashboardEndpoint", imports |-> i,
    content |-> c] :
     i \in {NoList, SomeList(<<>>)} \cup
           {SomeList(<<a, b>>) : a, b \in SampleImports},
     c \in Lists(SampleMethods)}

EnumVariantNodes ==
  {[kind |-> "EnumVariant", name |-> v] : v \in {"VAL1", "VAL2", "VAL3"}}

EnumNodes ==
  {[kind |-> "Enum", name |-> "MyEnum", variants |-> v] :
     v \in Lists(EnumVariantNodes)}

EnumModuleNodes ==
  {[kind |-> "EnumModule", name |-> "MyEnum", content |-> c] :
     c \in {NoNode} \cup {SomeNode(n) : n \in EnumNodes}}

IdentNodes ==
  {[kind |-> "Ident", name |-> v] : v \in {"Array", "DashboardEndpoint"}}

Nodes ==
  IdentNodes \cup SampleImports \cup TypeNodes \cup SampleTypes \cup
  FieldNodes \cup StructNodes \cup StructModuleNodes \cup ParameterNodes \cup
  MethodNodes \cup EndpointModuleNodes \cup EnumVariantNodes \cup
  EnumNodes \cup EnumModuleNodes

\* the header of the tests of ts.rs
Headers == {"/**\n * Some header\n */"}

Opts ==
  {OptNone, TypeWithoutOptional(TRUE), TypeWithoutOptional(FALSE)} \cup
  {ModuleHeader(h) : h \in Headers} \cup
  {MethodEndpointName(e) : e \in {"UserEndpoint"}}

(***************************************************************************)
(* Code generator: the state machine, one action per match arm             *)
(***************************************************************************)
InitResolverIdle ==
  /\ paths = <<>>
  /\ fs = <<>>
  /\ name = ""
  /\ dep = ""
  /\ pc = "idle"
  /\ ei = 1 /\ ai = 1
  /\ dirRes = None /\ archRes = None
  /\ opened = {}
  /\ result = None

InitCodegen ==
  /\ node \in Nodes
  /\ opts \in Opts
  /\ out = [done |-> FALSE, panic |-> FALSE, text |-> "", by |-> ""]
  /\ InitResolverIdle

\* the call returns text
Returns(kind, text) ==
  /\ node.kind = kind
  /\ ~out.done
  /\ out' = [done |-> TRUE, panic |-> FALSE, text |-> text, by |-> "codegen"]
  /\ UNCHANGED <<node, opts>>
  /\ UNCHANGED resolverVars

GenIdent == Returns("Ident", CodegenIdent(node.name))

GenImport == Returns("Import", CodegenImport(node))

GenType == Returns("Type", CodegenType(node, opts))

GenField == Returns("Field", CodegenField(node, opts))

GenStruct == Returns("Struct", CodegenStruct(node, opts))

GenStructModule == Returns("StructModule", CodegenStructModule(node, opts))

GenParameter == Returns("Parameter", CodegenParameter(node, opts))

\* ts.rs:329-365: panic!, or the stub
GenMethod ==
  /\ node.kind = "Method"
  /\ ~out.done
  /\ out' = IF MethodPanics(opts)
            THEN [done |-> TRUE, panic |-> TRUE, text |-> "", by |-> "codegen"]
            ELSE [done |-> TRUE, panic |-> FALSE,
                  text |-> CodegenMethod(node, opts), by |-> "codegen"]
  /\ UNCHANGED <<node, opts>>
  /\ UNCHANGED resolverVars

\* ts.rs:366-418: the stubs are rendered by the Method arm, which panics
\* when it is not handed an endpoint name
GenEndpointModule ==
  /\ node.kind = "EndpointModule"
  /\ ~out.done
  /\ out' = IF EndpointModulePanics(node, opts)
            THEN [done |-> TRUE, panic |-> TRUE, text |-> "", by |-> "codegen"]
            ELSE [done |-> TRUE, panic |-> FALSE,
                  text |-> CodegenEndpointModule(node, opts), by |-> "codegen"]
  /\ UNCHANGED <<node, opts>>
  /\ UNCHANGED resolverVars

GenEnumVariant == Returns("EnumVariant", CodegenEnumVariant(node, opts))

GenEnum == Returns("Enum", CodegenEnum(node, opts))

GenEnumModule == Returns("EnumModule", CodegenEnumModule(node, opts))

\* src/ast: t.as_ts() and t.without_optional().as_ts(), f.as_ts()
AsTs ==
  /\ ~out.done
  /\ \/ /\ node.kind = "Type"
        /\ opts \in {OptNone, TypeWithoutOptional(TRUE)}
        /\ out' = [done |-> TRUE, panic |-> FALSE, by |-> "as_ts",
                   text |-> IF opts = OptNone THEN TypeAsTs(node)
                            ELSE NonOptionalTypeAsTs(node)]
     \/ /\ node.kind = "Field"
        /\ opts = OptNone
        /\ out' = [done |-> TRUE, panic |-> FALSE, by |-> "as_ts",
                   text |-> FieldAsTs(node)]
     \/ /\ node.kind = "Struct"
        /\ opts = OptNone
        /\ out' = [done |-> TRUE, panic |-> FALSE, by |-> "as_ts",
                   text |-> DeclarationAsTs(node)]
  /\ UNCHANGED <<node, opts>>
  /\ UNCHANGED resolverVars

NextCodegen ==
  \/ GenIdent \/ GenImport \/ GenType \/ GenField \/ GenStruct
  \/ GenStructModule \/ GenParameter \/ GenMethod \/ GenEndpointModule
  \/ GenEnumVariant \/ GenEnum \/ GenEnumModule \/ AsTs

CodegenSpec == InitCodegen /\ [][NextCodegen]_vars

(***************************************************************************)
(* Resolver: what the roots hold, stated on the file system alone          *)
(***************************************************************************)
\* the path a class of that name has below a directory root
ClassFileOf(root, n) == root \o "/" \o n \o ".class"

\* <<i, k>>: the k-th entry below the i-th root is the class file of name n
DirFilesOf(n) ==
  {x \in (DOMAIN paths) \X (1..MaxWalk) :
     /\ fs[paths[x[1]]].kind = "dir"
     /\ x[2] \in DOMAIN fs[paths[x[1]]].children
     /\ paths[x[1]] \o fs[paths[x[1]]].children[x[2]].rel
          = ClassFileOf(paths[x[1]], n)}

DirFileState(x) == fs[paths[x[1]]].children[x[2]].state

DirFilePath(x) == paths[x[1]] \o fs[paths[x[1]]].children[x[2]].rel

\* the first of a set of <<root, entry>> pairs in walk order
FirstInWalk(S) ==
  CHOOSE x \in S :
    \A y \in S : x[1] < y[1] \/ (x[1] = y[1] /\ x[2] <= y[2])

\* what opening and parsing a file gives
FileOutcome(x) ==
  CASE DirFileState(x) = "class" -> Ok(DirFilePath(x))
    [] DirFileState(x) = "corrupt" -> Err("Coffer", DirFilePath(x))
    [] OTHER -> Err("IO", DirFilePath(x))

\* the roots that are archives holding an entry for name n
ArchivesWith(n) ==
  {i \in DOMAIN paths :
     /\ fs[paths[i]].kind = "zip"
     /\ \E e \in fs[paths[i]].entries : e.name = n \o ".class"}

ArchiveEntryState(i, n) ==
  (CHOOSE e \in fs[paths[i]].entries : e.name = n \o ".class").state

\* the roots named *.jar that are not there, or are no archive
BrokenArchives ==
  {i \in DOMAIN paths :
     \/ fs[paths[i]].kind = "notzip"
     \/ fs[paths[i]].kind = "missing" /\ EndsWith(paths[i], ".jar")}

(***************************************************************************)
(* C1                                                                      *)
(***************************************************************************)
\* C1, as stated: a name that is a class file under a directory root and an
\* entry of an archive root resolves to a class parsed from a directory root.
C1_AsStated ==
  (/\ pc = "done"
   /\ \E x \in DirFilesOf(name) : DirFileState(x) = "class"
   /\ ArchivesWith(name) # {})
  => /\ result.ok
     /\ \E x \in DirFilesOf(name) : result.class = DirFilePath(x)

\* C1, amended: a name that is a file under a directory root and an entry of
\* an archive root resolves to what the first such file in walk order gives,
\* its class or its open or parse error, and never to what an archive gives,
\* wherever the archives stand in the root list.
C1_DirectoryFirst ==
  (/\ pc = "done"
   /\ DirFilesOf(name) # {}
   /\ ArchivesWith(name) # {})
  => result = FileOutcome(FirstInWalk(DirFilesOf(name)))

\* an archive holding the class stands before the directory the class is
\* returned from
C1_Witness ==
  /\ pc = "done"
  /\ result.ok
  /\ \E x \in DirFilesOf(name) :
       /\ result.class = DirFilePath(x)
       /\ \E i \in ArchivesWith(name) :
            i < x[1] /\ ArchiveEntryState(i, name) = "class"

(***************************************************************************)
(* C2                                                                      *)
(***************************************************************************)
\* no file below a directory root and no archive entry is of name n
Absent(n) ==
  /\ \A i \in DOMAIN paths : \A k \in DOMAIN fs[paths[i]].children :
       ~Contains(paths[i] \o fs[paths[i]].children[k].rel, n \o ".class")
  /\ ArchivesWith(n) = {}

\* C2, as stated: a name absent from every root gives dependency-not-resolved
\* whatever the state of the roots.
C2_AsStated ==
  (pc = "done" /\ Absent(name))
  => (~result.ok /\ result.err = "DependencyNotResolved")

\* C2, amended: a name absent from every root gives dependency-not-resolved
\* when every archive root opens as an archive; otherwise it gives the I/O or
\* archive-format error of the first archive root that does not, and never a
\* class or a class-format error.
C2_Miss ==
  (pc = "done" /\ Absent(name))
  => IF BrokenArchives = {}
     THEN ~result.ok /\ result.err = "DependencyNotResolved"
     ELSE result =
            Err(IF fs[paths[Least(BrokenArchives)]].kind = "missing"
                THEN "IO" ELSE "Zip", paths[Least(BrokenArchives)])

\* a miss over a missing directory root, a directory and an archive that
\* opens
C2_Witness ==
  /\ pc = "done"
  /\ Absent(name)
  /\ name = ClassRel
  /\ result.err = "DependencyNotResolved"
  /\ \E i, j, k \in DOMAIN paths :
       /\ fs[paths[i]].kind = "dir"
       /\ fs[paths[j]].kind = "zip"
       /\ fs[paths[k]].kind = "missing"

(***************************************************************************)
(* C3                                                                      *)
(***************************************************************************)
\* the roots of the scenario: directory roots without a file of the class,
\* and one archive root, which holds com/example/Foo.class
C3_Scenario ==
  /\ \E i \in DOMAIN paths : fs[paths[i]].kind = "dir"
  /\ \A i \in DOMAIN paths :
       fs[paths[i]].kind = "dir" => fs[paths[i]].children = <<>>
  /\ \A i \in DOMAIN paths : fs[paths[i]].kind \in {"dir", "zip"}
  /\ Cardinality(ArchivesWith("com/example/Foo")) = 1
  /\ \A i \in ArchivesWith("com/example/Foo") :
       ArchiveEntryState(i, "com/example/Foo") = "class"

C3_ArchiveClass ==
  Ok(paths[Least(ArchivesWith("com/example/Foo"))]
       \o "!" \o "com/example/Foo.class")

C4_FailureMet ==
  \/ \E k \in 1..(ei - 1) : ~DirWalk[k].ok
  \/ dirRes.some /\ ~dirRes.ok
  \/ archRes.some /\ ~archRes.ok
  \/ \E i \in DOMAIN paths :
       /\ paths[i] \in opened
       /\ fs[paths[i]].kind = "zip"
       /\ \E e \in fs[paths[i]].entries :
            e.name = dep /\ e.state = "encrypted"

\* C4, as stated: every failure met during resolve is returned to the caller
\* as an error other than the miss.
C4_AsStated ==
  (pc = "done" /\ C4_FailureMet)
  => (~result.ok /\ result.err # "DependencyNotResolved")

(***************************************************************************)
(* C5                                                                      *)
(***************************************************************************)
\* C5, as stated: an archive root that is not there, reached by the archive
\* phase after a directory phase without a candidate, gives JarNotFound.
C5_AsStated ==
  (/\ pc = "done"
   /\ ~dirRes.some
   /\ \E i \in DOMAIN paths :
        paths[i] \in opened /\ fs[paths[i]].kind = "missing")
  => (~result.ok /\ result.err = "JarNotFound")

(***************************************************************************)
(* C6                                                                      *)
(***************************************************************************)
\* C6, as stated: when neither phase yields anything, the error is
\* dependency-not-resolved and carries the name as the caller passed it.
C6_AsStated ==
  (pc = "done" /\ ~dirRes.some /\ ~archRes.some)
  => result = Err("DependencyNotResolved", name)

(***************************************************************************)
(* Code generator: reading the rendered text                               *)
(***************************************************************************)
\* the indices at which sep starts in s
Occurrences(s, sep) ==
  {i \in 1..(Len(s) - Len(sep) + 1) : SubSeq(s, i, i + Len(sep) - 1) = sep}

\* the least index at which sep starts in s, 0 when it does not occur
IndexOf(s, sep) ==
  LET at == Occurrences(s, sep) IN IF at = {} THEN 0 ELSE Least(at)

RECURSIVE SplitFrom(_, _, _, _)
\* the pieces of s from index from on, at being where sep starts
SplitFrom(s, sep, at, from) ==
  LET rest == {i \in at : i >= from}
  IN IF rest = {} THEN <<SubSeq(s, from, Len(s))>>
     ELSE <<SubSeq(s, from, Least(rest) - 1)>>
            \o SplitFrom(s, sep, rest, Least(rest) + Len(sep))

\* the pieces of s between the occurrences of sep
Split(s, sep) == SplitFrom(s, sep, Occurrences(s, sep), 1)

Lines(s) == Split(s, "\n")

RECURSIVE Unlines(_)
\* the text whose lines are ls
Unlines(ls) ==
  IF Len(ls) = 1 THEN ls[1] ELSE ls[1] \o "\n" \o Unlines(Tail(ls))

\* a list, its elements taken in the order q
Permuted(l, q) == [k \in 1..Len(l) |-> l[q[k]]]

\* the required-form and full-form renders of a type, by the renderer that
\* wrote out
RequiredForm(t) ==
  IF out.by = "as_ts" THEN NonOptionalTypeAsTs(t)
  ELSE CodegenType(t, TypeWithoutOptional(TRUE))

FullForm(t) ==
  IF out.by = "as_ts" THEN TypeAsTs(t) ELSE CodegenType(t, OptNone)

(***************************************************************************)
(* C7                                                                      *)
(***************************************************************************)
\* C7: the full-form render of a type is its required-form render followed
\* by " | undefined" exactly when the type is optional; the required-form
\* render does not end with the suffix, and is the name followed by the
\* generic arguments, each in full form, between angle brackets.
C7_OptionalConsistency ==
  (out.done /\ node.kind = "Type")
  => /\ opts # TypeWithoutOptional(TRUE)
          => out.text = RequiredForm(node)
                          \o (IF node.optional THEN " | undefined" ELSE "")
     /\ opts = TypeWithoutOptional(TRUE)
          => /\ ~EndsWith(out.text, " | undefined")
             /\ out.text =
                  node.name
                    \o (IF node.inner.some
                        THEN "<" \o Join([k \in 1..Len(node.inner.list) |->
                                            FullForm(node.inner.list[k])],
                                         ", ") \o ">"
                        ELSE "")

\* an optional type with an optional argument, rendered in both forms
C7_Witness ==
  /\ out.done
  /\ node = Type("Array", TRUE, SomeList(<<Type("number", TRUE, NoList)>>))
  /\ \/ opts = OptNone /\ out.text = "Array<number | undefined> | undefined"
     \/ /\ opts = TypeWithoutOptional(TRUE)
        /\ out.text = "Array<number | undefined>"
        /\ out.by = "codegen"

(***************************************************************************)
(* C8                                                                      *)
(***************************************************************************)
\* C8: a field renders as two spaces, the name, "?" exactly when its type is
\* optional, ": ", the required-form of the type and ";": the type's own
\* " | undefined" never follows a "?" marker.
C8_FieldMarker ==
  (out.done /\ node.kind = "Field")
  => /\ out.text =
          "  " \o node.name \o (IF node.type.optional THEN "?" ELSE "")
               \o ": " \o RequiredForm(node.type) \o ";"
     /\ Contains(out.text, "?") <=> node.type.optional
     /\ ~(Contains(out.text, "?") /\ EndsWith(out.text, " | undefined;"))

\* the field of the tests: optional, with an optional generic argument
C8_Witness ==
  /\ out.done
  /\ node.kind = "Field"
  /\ out.by = "codegen"
  /\ out.text = "  data?: Array<number | undefined>;"

(***************************************************************************)
(* C9                                                                      *)
(***************************************************************************)
\* the text between the parentheses of a stub's first line
C9_Signature(text) ==
  LET line == Lines(text)[1]
      from == IndexOf(line, "(") + 1
      to == IndexOf(line, "): Promise<") - 1
  IN SubSeq(line, from, to)

\* the text between the braces of a stub's call, "" when there are none
C9_Payload(text) ==
  LET line == Lines(text)[2]
      from == IndexOf(line, ", {") + 3
      to == IndexOf(line, "});") - 1
  IN IF IndexOf(line, ", {") = 0 THEN "" ELSE SubSeq(line, from, to)

C9_Struct ==
  LET l == node.fields.list
      lines == Lines(out.text)
      field(f) == IF out.by = "as_ts" THEN FieldAsTs(f)
                  ELSE CodegenField(f, OptNone)
      render(n) == IF out.by = "as_ts" THEN DeclarationAsTs(n)
                   ELSE CodegenStruct(n, opts)
  IN /\ Len(lines) = (IF l = <<>> THEN 1 ELSE Len(l)) + 2
     /\ \A k \in 1..Len(l) : lines[k + 1] = field(l[k])
     /\ \A q \in Permutations(1..Len(l)) :
          LET t == Lines(render([node EXCEPT !.fields.list = Permuted(l, q)]))
          IN \A k \in 1..Len(l) : t[k + 1] = lines[q[k] + 1]

C9_Enum ==
  LET l == node.variants.list
      lines == Lines(out.text)
  IN /\ Len(lines) = (IF l = <<>> THEN 1 ELSE Len(l)) + 2
     /\ \A k \in 1..Len(l) :
          lines[k + 1] = "  " \o l[k].name \o " = '" \o l[k].name \o "',"
     /\ \A q \in Permutations(1..Len(l)) :
          LET t == Lines(CodegenEnum(
                           [node EXCEPT !.variants.list = Permuted(l, q)], opts))
          IN \A k \in 1..Len(l) : t[k + 1] = lines[q[k] + 1]

\* the stubs are the 4n lines before "export {", the entries the n after it
C9_EndpointModule ==
  LET l == node.content.list
      n == Len(l)
      lines == Lines(out.text)
      export == Len(lines) - (IF n = 0 THEN 1 ELSE n) - 1
      stub(t, k) == SubSeq(t, export - 4 * n + 4 * (k - 1),
                           export - 4 * n + 4 * (k - 1) + 3)
      permuted(q) ==
        CodegenEndpointModule(
          [node EXCEPT !.content.list = Permuted(l, q)], opts)
      \* the lines of out.text, those of the stubs and of the entries taken
      \* in the order q
      reordered(q) ==
        [i \in 1..Len(lines) |->
           IF i >= export - 4 * n /\ i < export
           THEN lines[export - 4 * n
                        + 4 * (q[((i - (export - 4 * n)) \div 4) + 1] - 1)
                        + ((i - (export - 4 * n)) % 4)]
           ELSE IF i > export /\ i <= export + n
           THEN lines[export + q[i - export]]
           ELSE lines[i]]
  IN node.content.some
     => /\ lines[export] = "export {"
        /\ lines[Len(lines)] = "};"
        /\ \A k \in 1..n :
             /\ stub(lines, k) =
                  Lines(CodegenMethod(l[k], MethodEndpointName(node.name)))
                    \o <<"">>
             /\ lines[export + k] =
                  "  _" \o l[k].name \o " as " \o l[k].name \o ","
        /\ \A q \in Permutations(1..n) :
             permuted(q) = Unlines(reordered(q))

C9_Method ==
  LET l == node.parameters.list
      sig == Split(C9_Signature(out.text), ", ")
      payload == Split(C9_Payload(out.text), ", ")
  IN ~out.panic
     => /\ Len(sig) = (IF l = <<>> THEN 1 ELSE Len(l))
        /\ Len(payload) = Len(sig)
        /\ \A k \in 1..Len(l) :
             /\ sig[k] = l[k].name \o ": " \o FullForm(l[k].type)
             /\ payload[k] = l[k].name
        /\ \A q \in Permutations(1..Len(l)) :
             LET t == CodegenMethod(
                        [node EXCEPT !.parameters.list = Permuted(l, q)],
                        opts)
                 tsig == Split(C9_Signature(t), ", ")
                 tpayload == Split(C9_Payload(t), ", ")
             IN \A k \in 1..Len(l) :
                  /\ tsig[k] = sig[q[k]]
                  /\ tpayload[k] = payload[q[k]]

\* C9: the k-th field line of a struct, the k-th variant line of an enum, the
\* k-th stub and the k-th export entry of an endpoint module, and the k-th
\* parameter of a method's signature and of its call payload come from the
\* k-th element of the input list; a permuted list renders permuted alike.
C9_OrderPreserved ==
  out.done
  => /\ node.kind = "Struct" => C9_Struct
     /\ node.kind = "Enum" => C9_Enum
     /\ node.kind = "EndpointModule" => C9_EndpointModule
     /\ node.kind = "Method" => C9_Method

\* the endpoint module of the tests with its methods in the other order, and
\* a third one
C9_Witness ==
  /\ out.done
  /\ node.kind = "EndpointModule"
  /\ node.content.some
  /\ Len(node.content.list) = 3
  /\ node.content.list[1].name = "monthlyVisitorSeries"
  /\ node.content.list[2].name = "healthGridItems"
  /\ node.content.list[3].name = "ping"
  /\ Contains(out.text,
       "client.call(\"DashboardEndpoint\", \"monthlyVisitorSeries\", {id, optional});")
  /\ Contains(out.text,
       "export {\n  _monthlyVisitorSeries as monthlyVisitorSeries,\n  _healthGridItems as healthGridItems,\n  _ping as ping,\n};")

(***************************************************************************)
(* C10                                                                     *)
(***************************************************************************)
\* a struct or endpoint module puts nothing between the header's newline
\* and what follows it
C10_OtherModules ==
  LET header == CodegenHeader(opts)
  IN /\ SubSeq(out.text, 1, Len(header)) = header
     /\ Len(out.text) > Len(header)
          => SubSeq(out.text, Len(header) + 1, Len(header) + 1) # "\n"

C11_Content ==
  IF node.kind = "StructModule"
  THEN CodegenStructModule([node EXCEPT !.imports = NoList], OptNone)
  ELSE CodegenEndpointModule([node EXCEPT !.imports = NoList], OptNone)

\* C11, as stated: a struct or endpoint module whose import list is absent or
\* has no element renders as the header and a newline, when a header is
\* given, immediately followed by the content; without content it renders as
\* the header and a newline, or as the empty string.
C11_AsStated ==
  (/\ out.done
   /\ node.kind \in {"StructModule", "EndpointModule"}
   /\ (~node.imports.some \/ node.imports.list = <<>>))
  => LET header == IF opts.kind = "ModuleHeader" THEN opts.text \o "\n" ELSE ""
     IN /\ out.text = header \o C11_Content
        /\ ~node.content.some => out.text = header

(***************************************************************************)
(* C12                                                                     *)
(***************************************************************************)
\* the calls of the dispatcher in a text, as the lines that hold one
C12_Calls(text) ==
  SelectSeq(Lines(text), LAMBDA l : Contains(l, "client.call("))

\* C12: a render aborts exactly when it is codegen of a Method with an option
\* other than an endpoint name, and then returns no text; every node can be
\* rendered with every option value; an endpoint module, whatever its option,
\* renders the call of each of its methods with the module's own name.
C12_OnlyMethodPanics ==
  /\ ~out.done => ENABLED NextCodegen
  /\ out.done
       => /\ out.panic <=> /\ node.kind = "Method"
                           /\ out.by = "codegen"
                           /\ opts.kind # "MethodEndpointName"
          /\ out.panic => out.text = ""
          /\ (node.kind = "EndpointModule" /\ node.content.some)
               => LET calls == C12_Calls(out.text)
                  IN /\ Len(calls) = Len(node.content.list)
                     /\ \A k \in 1..Len(node.content.list) :
                          Contains(calls[k],
                                   "client.call(\"" \o node.name \o "\", \""
                                     \o node.content.list[k].name \o "\"")

\* a method rendered on its own without an endpoint name, which aborts
C12_Witness ==
  /\ out.done
  /\ out.panic
  /\ node.kind = "Method"
  /\ opts = OptNone

(***************************************************************************)
(* C13                                                                     *)
(***************************************************************************)
\* C13, as stated: when the directory phase yields a parsed class, no archive
\* root is opened during the call.
C13_AsStated ==
  (dirRes.some /\ dirRes.ok) => opened = {}

(***************************************************************************)
(* C14                                                                     *)
(***************************************************************************)
\* C14: when the first file in walk order whose path contains the name and
\* ".class" does not open or does not parse, resolve returns that I/O or
\* class-format error, whatever later directory files and archives hold.
C14_HardError ==
  (/\ pc = "done"
   /\ DirFilesOf(name) # {}
   /\ DirFileState(FirstInWalk(DirFilesOf(name))) # "class")
  => /\ ~result.ok
     /\ result.err =
          (IF DirFileState(FirstInWalk(DirFilesOf(name))) = "corrupt"
           THEN "Coffer" ELSE "IO")
     /\ result.payload = DirFilePath(FirstInWalk(DirFilesOf(name)))

\* the first matching file fails, a later directory holds the class and so
\* does an archive, and the first file's error is returned
C14_Witness ==
  /\ pc = "done"
  /\ ~result.ok
  /\ result.err \in {"IO", "Coffer"}
  /\ \E x, y \in DirFilesOf(name) :
       /\ x = FirstInWalk(DirFilesOf(name))
       /\ result.payload = DirFilePath(x)
       /\ x[1] < y[1]
       /\ DirFileState(y) = "class"
  /\ \E i \in ArchivesWith(name) : ArchiveEntryState(i, name) = "class"

(***************************************************************************)
(* C15                                                                     *)
(***************************************************************************)
\* the archive roots tried before root i that are not there or no archive
C15_BrokenBefore(i) == {j \in BrokenArchives : j < i}

\* C15, as stated: with no candidate in the directory phase, the first archive
\* in root order that holds the entry decides the result, its class or the
\* error of reading it, the archives after it are not opened, and an archive
\* before it that does not open or is none gives its error as the result.
C15_AsStated ==
  (pc = "done" /\ ~dirRes.some /\ ArchivesWith(name) # {})
  => LET first == Least(ArchivesWith(name))
         entry == paths[first] \o "!" \o name \o ".class"
     IN IF C15_BrokenBefore(first) # {}
        THEN result =
               Err(IF fs[paths[Least(BrokenArchives)]].kind = "missing"
                   THEN "IO" ELSE "Zip", paths[Least(BrokenArchives)])
        ELSE /\ IF ArchiveEntryState(first, name) = "class"
                THEN result = Ok(entry)
                ELSE ~result.ok /\ result.err # "DependencyNotResolved"
             /\ \A j \in DOMAIN paths : j > first => paths[j] \notin opened

(***************************************************************************)
(* C16                                                                     *)
(***************************************************************************)
\* C16, as stated: a type whose generic-argument list is absent or has no
\* element renders as its name and the optional suffix, with no angle
\* brackets; a method whose parameter list is absent or has no element
\* renders "()" for its parameters and a call with the endpoint name and the
\* method name alone.
C16_AsStated ==
  /\ (/\ out.done
      /\ node.kind = "Type"
      /\ (~node.inner.some \/ node.inner.list = <<>>))
     => out.text =
          node.name \o (IF node.optional /\ opts # TypeWithoutOptional(TRUE)
                        THEN " | undefined" ELSE "")
  /\ (/\ out.done
      /\ ~out.panic
      /\ node.kind = "Method"
      /\ (~node.parameters.some \/ node.parameters.list = <<>>))
     => /\ C9_Signature(out.text) = ""
        /\ Lines(out.text)[2] =
             "  client.call(\"" \o opts.text \o "\", \"" \o node.name
               \o "\");"

====
